---------------------------- MODULE Spec2Model ----------------------------
(***************************************************************************)
(* Model of the Monopoly companion server: the GameState aggregate         *)
(* (src/server/game_state.py) and the MonopolyServer connection threads,   *)
(* action handlers and broadcast (src/server/server.py).                   *)
(*                                                                         *)
(* Spec          the handlers as atomic operations on the game state       *)
(*               (every handler body runs under the server lock).          *)
(* RollSpec      the turn handlers from a game whose first player stands   *)
(*               on an arbitrary board position.                           *)
(* ConnSpec      the connection threads step by step, from the server's    *)
(*               start: the lock, the registration, the snapshot and its   *)
(*               encoding.  The encoding raises for every snapshot, so no  *)
(*               thread comes to its receive loop.                         *)
(* ConcSpec      the same threads from a state in which two sessions are   *)
(*               registered and their threads stand in the receive loop:   *)
(*               the calls of _process_message.                            *)
(* FairConcSpec  ConcSpec under fair scheduling of the threads.            *)
(* ApiSpec       the methods of GameState called directly, with any id.    *)
(* MoveSpec      move_player called from every board position.             *)
(* WrapSpec      the handlers from a game whose first player stands one    *)
(*               space before GO.                                          *)
(* ProtoSpec     as ConcSpec, for clients that send payloads other than    *)
(*               player actions.                                           *)
(* ForgeSpec     as ConcSpec, for clients whose messages name any player   *)
(*               in their "player_id".                                     *)
(* RegisterSpec  ConnSpec with clients that call register_player on their  *)
(*               open connection.                                          *)
(* FairRegisterSpec  RegisterSpec under fair scheduling of the threads.    *)
(* ClientSpec    the clients of the registered sessions, connected under   *)
(*               any names, handling GAME_STATE messages.                  *)
(***************************************************************************)
EXTENDS Integers, Sequences, FiniteSets, TLC

\* ---------------------------------------------------------------- bounds
NumConns == 3      \* connections (each is one session / one player id)
MaxTurn  == 3      \* end_turn is not taken once turn_number reaches this
MaxRolls == 1      \* accepted dice rolls per run, faces drawn from SampleFaces
MaxFullRolls == 2  \* accepted dice rolls per run, faces drawn from all of Faces
NumThreads == 3    \* connections accepted in the runs of the threads
MaxStalled == 1    \* peers that stall
MaxMoves == 2      \* move_player calls per run of the GameState methods

\* ------------------------------------------------------ program constants
BoardSize  == 40
StartMoney == 1500
GoBonus    == 200
MinFace    == 1
MaxFace    == 6

Conns    == 1..NumConns
NoPlayer == 0                      \* None
Faces    == MinFace..MaxFace       \* random.randint(1, 6)
NoDice   == <<0, 0>>
SampleFaces == {MinFace, MaxFace}  \* the two extreme faces

VARIABLES
    game_state,   \* MonopolyServer.game_state (GameState fields)
    clients,      \* MonopolyServer.clients: registered session ids, insertion order
    rolls,        \* number of accepted rolls so far (bounds the run)
    last,         \* the last handler invocation: [op, who, cur (the turn before it)]
    lap,          \* the turn holders since the last join or leave, oldest first
                  \* (kept by the atomic handlers of Spec and RollSpec only)
    gone,         \* the ids removed while another player held the turn and not
                  \* added again since (kept by the atomic handlers only)
    pc,           \* per connection thread: where it is in _handle_client
    lock,         \* MonopolyServer.lock: the thread that holds it, or NoThread
    sock,         \* per connection: the peer is "open", "stalled" or "closed"
    msg,          \* per thread: the message read by the last recv
    msg_player_id, \* per thread: the "player_id" written in that message
    caller,       \* per thread: which call of _broadcast_game_state it is in
    iter,         \* per thread: len(players) when to_dict began iterating
    snap,         \* per thread: game_state_dict being built / being encoded
    seen,         \* per thread: the game states that existed while it read
                  \* game_state; once it has read, those that equal its snapshot
    hello,        \* per connection: the first payload its thread received
    sent,         \* per thread: the sendall calls it has made, in order:
                  \* [to |-> session, type |-> the kind of the message sent]
    client        \* per connection: its MonopolyClient: player_name, player_id
                  \* and the names it has sent with register_player

hvars == <<rolls, last, lap, gone>>
tvars == <<pc, lock, sock, msg, msg_player_id, caller, iter, snap, seen,
           hello, sent, client>>
vars  == <<game_state, clients, hvars, tvars>>

\* ------------------------------------------------------------ game_state.py

\* Player.__init__
Player(id) ==
    [id |-> id, position |-> 0, money |-> StartMoney, owned_properties |-> << >>]

\* Board._create_properties: the ids of the properties, their price, and
\* the board as the owner_id of each property (None at construction)
PropertyIds == {1, 2}

PropertyPrice == 60

Board == [p \in PropertyIds |-> NoPlayer]

\* GameState.__init__
NewGameState ==
    [board             |-> Board,
     players           |-> << >>,
     current_player_id |-> NoPlayer,
     dice_roll         |-> NoDice,
     game_phase        |-> "waiting_for_players",
     turn_number       |-> 0]

\* list(self.players.keys()): the ids in insertion order
Keys(ps) == [i \in 1..Len(ps) |-> ps[i].id]

\* player_id in self.players
HasKey(ps, id) == \E i \in 1..Len(ps) : ps[i].id = id

\* list.index(x), 0-based
Index0(ids, x) == (CHOOSE i \in 1..Len(ids) :
                      ids[i] = x /\ \A j \in 1..(i - 1) : ids[j] # x) - 1

\* del self.players[player_id]
DelKey(ps, id) == SelectSeq(ps, LAMBDA p : p.id # id)

\* self.players[player_id] = player  (an existing key keeps its slot)
PutKey(ps, p) ==
    IF HasKey(ps, p.id)
    THEN [i \in 1..Len(ps) |-> IF ps[i].id = p.id THEN p ELSE ps[i]]
    ELSE Append(ps, p)

\* GameState.add_player
add_player_restarts(gs, id) ==
    LET first == gs.current_player_id = NoPlayer
                 /\ gs.game_phase = "waiting_for_players"
    IN  [gs EXCEPT !.players = [i \in 1..(Len(@) + 1) |->
                                   IF i <= Len(@) THEN Player(@[i].id)
                                   ELSE Player(id)],
                   !.current_player_id = IF first THEN id ELSE @,
                   !.game_phase = IF first THEN "playing" ELSE @]

add_player_takes_turn(gs, id) ==
    [gs EXCEPT !.players = PutKey(gs.players, Player(id)),
               !.current_player_id = id,
               !.game_phase = "playing"]

add_player(gs, id) ==
    LET ps    == PutKey(gs.players, Player(id))
        first == gs.current_player_id = NoPlayer
                 /\ gs.game_phase = "waiting_for_players"
    IN  [gs EXCEPT !.players = ps,
                   !.current_player_id = IF first THEN id ELSE @,
                   !.game_phase = IF first THEN "playing" ELSE @]

\* GameState._advance_to_next_player
advance_to_next_player_counts(gs) ==
    LET ids == Keys(gs.players)
    IN  IF ids = << >>
        THEN [gs EXCEPT !.current_player_id = NoPlayer]
        ELSE [gs EXCEPT !.current_player_id = ids[1],
                        !.turn_number = @ + 1]

advance_to_next_player(gs) ==
    LET ids == Keys(gs.players)
    IN  IF ids = << >>
        THEN [gs EXCEPT !.current_player_id = NoPlayer]
        ELSE LET next_idx ==
                     IF \E i \in 1..Len(ids) : ids[i] = gs.current_player_id
                     THEN (Index0(ids, gs.current_player_id) + 1) % Len(ids)
                     ELSE 0
             IN  [gs EXCEPT !.current_player_id = ids[next_idx + 1]]

\* GameState.remove_player (the state it leaves; it returns HasKey)
remove_player_keep_current(gs, id) ==
    [gs EXCEPT !.players = DelKey(gs.players, id)]

remove_player_no_reset(gs, id) ==
    IF HasKey(gs.players, id)
    THEN LET g1 == [gs EXCEPT !.players = DelKey(gs.players, id)]
         IN  IF id = g1.current_player_id
             THEN advance_to_next_player(g1) ELSE g1
    ELSE gs

remove_player_keep_turn(gs, id) ==
    IF HasKey(gs.players, id)
    THEN LET g1 == [gs EXCEPT !.players = DelKey(gs.players, id)]
             g2 == IF id = g1.current_player_id
                   THEN advance_to_next_player(g1) ELSE g1
         IN  IF g2.players = << >>
             THEN [g2 EXCEPT !.game_phase = "waiting_for_players",
                             !.current_player_id = NoPlayer]
             ELSE g2
    ELSE gs

remove_player_always_advance(gs, id) ==
    IF HasKey(gs.players, id)
    THEN LET g1 == [gs EXCEPT !.players = DelKey(gs.players, id)]
             g2 == advance_to_next_player(g1)
         IN  IF g2.players = << >>
             THEN [g2 EXCEPT !.game_phase = "waiting_for_players",
                             !.current_player_id = NoPlayer,
                             !.turn_number = 0]
             ELSE g2
    ELSE gs

remove_player_noop(gs, id) == gs

remove_player(gs, id) ==
    IF HasKey(gs.players, id)
    THEN LET g1 == [gs EXCEPT !.players = DelKey(gs.players, id)]
             g2 == IF id = g1.current_player_id
                   THEN advance_to_next_player(g1) ELSE g1
         IN  IF g2.players = << >>
             THEN [g2 EXCEPT !.game_phase = "waiting_for_players",
                             !.current_player_id = NoPlayer,
                             !.turn_number = 0]
             ELSE g2
    ELSE gs

\* GameState.move_player (the state it leaves)
move_player_creates(gs, id, steps) ==
    LET g == IF HasKey(gs.players, id) THEN gs
             ELSE [gs EXCEPT !.players = Append(@, Player(id))]
    IN  [g EXCEPT !.players =
            [i \in 1..Len(g.players) |->
                IF g.players[i].id = id
                THEN LET old == g.players[i].position
                         new == (old + steps) % BoardSize
                     IN  [g.players[i] EXCEPT
                            !.position = new,
                            !.money = IF new < old THEN @ + GoBonus ELSE @]
                ELSE g.players[i]]]

move_player_credit_on_same(gs, id, steps) ==
    [gs EXCEPT !.players =
        [i \in 1..Len(gs.players) |->
            IF gs.players[i].id = id
            THEN LET old == gs.players[i].position
                     new == (old + steps) % BoardSize
                 IN  [gs.players[i] EXCEPT
                        !.position = new,
                        !.money = IF new <= old THEN @ + GoBonus ELSE @]
            ELSE gs.players[i]]]

move_player_no_wrap(gs, id, steps) ==
    [gs EXCEPT !.players =
        [i \in 1..Len(gs.players) |->
            IF gs.players[i].id = id
            THEN [gs.players[i] EXCEPT !.position = @ + steps]
            ELSE gs.players[i]]]

move_player(gs, id, steps) ==
    IF ~HasKey(gs.players, id) THEN gs
    ELSE [gs EXCEPT !.players =
            [i \in 1..Len(gs.players) |->
                IF gs.players[i].id = id
                THEN LET old == gs.players[i].position
                         new == (old + steps) % BoardSize
                     IN  [gs.players[i] EXCEPT
                            !.position = new,
                            !.money = IF new < old THEN @ + GoBonus ELSE @]
                ELSE gs.players[i]]]

\* GameState.remove_player (the value it returns): True when the id was a
\* player, else False
remove_player_returns(gs, id) == HasKey(gs.players, id)

\* GameState.move_player (the value it returns): -1 for an unknown id, else
\* the position the player has after the move
move_player_returns(gs, id, steps) ==
    IF ~HasKey(gs.players, id) THEN -1
    ELSE LET ps == move_player(gs, id, steps).players
         IN  ps[Index0(Keys(ps), id) + 1].position

\* ---------------------------------------------------------------- server.py

\* MonopolyServer._handle_dice_roll, with the two random.randint draws d1, d2
handle_dice_roll_keeps_sum(gs, player_id, d1, d2) ==
    IF gs.current_player_id # player_id THEN gs
    ELSE move_player([gs EXCEPT !.dice_roll = <<d1 + d2, 0>>],
                     player_id, d1 + d2)

handle_dice_roll_any_turn(gs, player_id, d1, d2) ==
    move_player([gs EXCEPT !.dice_roll = <<d1, d2>>], player_id, d1 + d2)

handle_dice_roll(gs, player_id, d1, d2) ==
    IF gs.current_player_id # player_id THEN gs
    ELSE LET steps == d1 + d2
             g1    == [gs EXCEPT !.dice_roll = <<d1, d2>>]
         IN  move_player(g1, player_id, steps)

\* MonopolyServer._handle_end_turn
handle_end_turn_skip(gs, player_id) ==
    LET ids == Keys(gs.players)
    IN  IF gs.current_player_id # player_id \/ ids = << >> THEN gs
        ELSE [gs EXCEPT
                !.current_player_id =
                    ids[((Index0(ids, player_id) + 2) % Len(ids)) + 1],
                !.turn_number = @ + 1,
                !.dice_roll = NoDice]

handle_end_turn_no_wrap(gs, player_id) ==
    LET ids == Keys(gs.players)
    IN  IF gs.current_player_id # player_id \/ ids = << >> THEN gs
        ELSE [gs EXCEPT
                !.current_player_id =
                    IF Index0(ids, player_id) + 1 < Len(ids)
                    THEN ids[Index0(ids, player_id) + 2] ELSE player_id,
                !.turn_number = @ + 1,
                !.dice_roll = NoDice]

handle_end_turn(gs, player_id) ==
    IF gs.current_player_id # player_id THEN gs
    ELSE LET player_ids == Keys(gs.players)
         IN  IF player_ids = << >> THEN gs
             ELSE LET current_idx ==
                          IF \E i \in 1..Len(player_ids) : player_ids[i] = player_id
                          THEN Index0(player_ids, player_id) ELSE -1
                      next_idx == (current_idx + 1) % Len(player_ids)
                  IN  [gs EXCEPT
                         !.current_player_id = player_ids[next_idx + 1],
                         !.turn_number = @ + 1,
                         !.dice_roll = NoDice]

\* ------------------------------------------------- the handlers as actions

InClients(c) == \E i \in 1..Len(clients) : clients[i] = c

Invoked(op, c) ==
    [op |-> op, who |-> c, cur |-> game_state.current_player_id,
     turn |-> game_state.turn_number, arg |-> 0, ret |-> 0]

\* the holder of the turn right after a join or a leave starts a new lap
NewLap(gs) == IF gs.players = << >> THEN << >> ELSE <<gs.current_player_id>>

\* _handle_client, CONNECT: add_player and registration under the lock
Join(c) ==
    /\ ~InClients(c)
    /\ game_state' = add_player(game_state, c)
    /\ clients' = Append(clients, c)
    /\ last' = Invoked("add_player", c)
    /\ lap' = NewLap(game_state')
    /\ gone' = gone \ {c}
    /\ UNCHANGED <<rolls, tvars>>

\* _handle_client, finally: remove_player and deregistration under the lock
Leave(c) ==
    /\ InClients(c)
    /\ game_state' = remove_player(game_state, c)
    /\ clients' = SelectSeq(clients, LAMBDA x : x # c)
    /\ last' = Invoked("remove_player", c)
    /\ lap' = NewLap(game_state')
    /\ gone' = IF game_state.current_player_id # c THEN gone \cup {c} ELSE gone
    /\ UNCHANGED <<rolls, tvars>>

\* _handle_dice_roll lines 176-182: random.randint is called only past the
\* turn check, so a rejected roll draws nothing (one placeholder pair)
Draws(c, F) == IF game_state.current_player_id = c THEN F ELSE {MinFace}

\* _process_message, action "roll_dice"; the two random.randint draws come
\* from F, and at most cap rolls are accepted in a run
Roll(c, F, cap) ==
    /\ InClients(c)
    /\ rolls < cap
    /\ \E d1 \in Draws(c, F), d2 \in Draws(c, F) :
         game_state' = handle_dice_roll(game_state, c, d1, d2)
    /\ last' = Invoked("roll_dice", c)
    /\ rolls' = IF game_state' # game_state THEN rolls + 1 ELSE rolls
    /\ UNCHANGED <<clients, lap, gone, tvars>>

RollDice(c) == Roll(c, SampleFaces, MaxRolls)

RollAnyDice(c) == Roll(c, Faces, MaxFullRolls)

\* _process_message, action "end_turn"
EndTurn(c) ==
    /\ InClients(c)
    /\ game_state.turn_number < MaxTurn
    /\ game_state' = handle_end_turn(game_state, c)
    /\ last' = Invoked("end_turn", c)
    /\ lap' = IF game_state' # game_state
              THEN Append(lap, game_state'.current_player_id) ELSE lap
    /\ UNCHANGED <<clients, rolls, gone, tvars>>

NoThread == 0

\* MessageType (messages.py): the names MessageType[...] accepts
MessageTypes ==
    {"CONNECT", "DISCONNECT", "GAME_STATE", "PLAYER_ACTION", "DICE_ROLL",
     "PROPERTY_TRANSACTION", "PLAYER_STATUS", "GAME_EVENT", "ERROR"}

\* what recv(4096) returns: bytes that are a JSON object with a "type" value
\* and with or without a "data" key, bytes that are not JSON, or b"" (EOF)
Payload(kind, type, data) == [kind |-> kind, type |-> type, data |-> data]

NoPayload == Payload("none", "", FALSE)       \* nothing received yet
Eof       == Payload("eof", "", FALSE)        \* recv returned no data

\* the first payloads tried: a CONNECT envelope, EOF, bytes that are not
\* JSON, a CONNECT without "data", another message kind, an unknown kind
FirstPayloads ==
    {Payload("json", "CONNECT", TRUE),
     Eof,
     Payload("garbage", "", FALSE),
     Payload("json", "CONNECT", FALSE),
     Payload("json", "PLAYER_ACTION", TRUE),
     Payload("json", "BOGUS", TRUE)}

\* Message.from_json: the type of the message it returns; JSONDecodeError
\* and KeyError (no such type name, no "data" key) give an ERROR message
from_json_no_data_check(p) ==
    IF p.kind = "json" /\ p.type \in MessageTypes THEN p.type ELSE "ERROR"

from_json(p) ==
    IF p.kind = "json" /\ p.type \in MessageTypes /\ p.data
    THEN p.type ELSE "ERROR"

\* _handle_client lines 105-112: the thread goes on to register a session
\* only when the first recv returned data that parses to a CONNECT message
FirstIsConnect(p) == p # Eof /\ from_json(p) = "CONNECT"

\* ui/__init__.py line 161: the name every client connects with
ControlPanel == "ControlPanel"

\* the names entered on the setup screen
PlayerNames == {"Alice", "Bob"}

\* MonopolyClient.__init__ and connect(player_name): the client's fields
MonopolyClient(name) ==
    [player_name |-> name, player_id |-> NoPlayer, registering |-> {}]

\* no connection accepted yet, the lock free
ThreadsInit ==
    /\ pc = [c \in Conns |-> "idle"]
    /\ lock = NoThread
    /\ sock = [c \in Conns |-> "open"]
    /\ msg = [c \in Conns |-> "none"]
    /\ msg_player_id = [c \in Conns |-> NoPlayer]
    /\ caller = [c \in Conns |-> "none"]
    /\ iter = [c \in Conns |-> 0]
    /\ snap = [c \in Conns |-> NewGameState]
    /\ seen = [c \in Conns |-> {}]
    /\ hello = [c \in Conns |-> NoPayload]
    /\ sent = [c \in Conns |-> << >>]
    /\ client = [c \in Conns |-> MonopolyClient(ControlPanel)]

NoOp ==
    [op |-> "none", who |-> NoPlayer, cur |-> NoPlayer, turn |-> 0,
     arg |-> 0, ret |-> 0]

Init ==
    /\ game_state = NewGameState
    /\ clients = << >>
    /\ rolls = 0
    /\ last = NoOp
    /\ lap = << >>
    /\ gone = {}
    /\ ThreadsInit

Next == \E c \in Conns : Join(c) \/ Leave(c) \/ RollDice(c) \/ EndTurn(c)

Spec == Init /\ [][Next]_vars

\* Two registered players, the first somewhere on the board after its own
\* rolls and end of turn(s): position 1 is reached only past GO, so it is
\* left out of the unwrapped starting positions.
RollInit ==
    \E p \in (0..(BoardSize - 1)) \ {1}, t \in 1..2 :
        /\ game_state =
              [board             |-> Board,
               players           |-> <<[Player(1) EXCEPT !.position = p], Player(2)>>,
               current_player_id |-> IF t = 1 THEN 2 ELSE 1,
               dice_roll         |-> NoDice,
               game_phase        |-> "playing",
               turn_number       |-> t]
        /\ clients = <<1, 2>>
        /\ rolls = 0
        /\ last = NoOp
        /\ lap = <<game_state.current_player_id>>
        /\ gone = {}
        /\ ThreadsInit

RollNext == \E c \in Conns : RollAnyDice(c) \/ EndTurn(c)

RollSpec == RollInit /\ [][RollNext]_vars

\* Two registered players after two full turns, the first again on turn and
\* on the last space before GO, where its own rolls took it without a lap.
WrapInit ==
    /\ game_state =
          [board             |-> Board,
           players           |-> <<[Player(1) EXCEPT !.position = BoardSize - 1],
                                   Player(2)>>,
           current_player_id |-> 1,
           dice_roll         |-> NoDice,
           game_phase        |-> "playing",
           turn_number       |-> 2]
    /\ clients = <<1, 2>>
    /\ rolls = 0
    /\ last = NoOp
    /\ lap = <<1>>
    /\ gone = {}
    /\ ThreadsInit

WrapSpec == WrapInit /\ [][Next]_vars

\* ------------------------------- the methods of GameState, called with any id

\* the step counts tried: the smallest and the largest sum of two dice
SampleSteps == {MinFace + MinFace, MaxFace + MaxFace}

\* GameState.add_player(player_id, ...), the id present or not
ApiAddPlayer(id) ==
    /\ game_state' = add_player(game_state, id)
    /\ last' = Invoked("add_player", id)
    /\ UNCHANGED <<clients, rolls, lap, gone, tvars>>

\* GameState.remove_player(player_id), the id present or not
ApiRemovePlayer(id) ==
    /\ game_state' = remove_player(game_state, id)
    /\ last' = [Invoked("remove_player", id) EXCEPT
                   !.ret = remove_player_returns(game_state, id)]
    /\ UNCHANGED <<clients, rolls, lap, gone, tvars>>

\* GameState.move_player(player_id, steps), the id present or not and the
\* steps drawn from S
Move(id, S) ==
    /\ rolls < MaxMoves
    /\ \E steps \in S :
         /\ game_state' = move_player(game_state, id, steps)
         /\ last' = [Invoked("move_player", id) EXCEPT
                        !.arg = steps,
                        !.ret = move_player_returns(game_state, id, steps)]
    /\ rolls' = rolls + 1
    /\ UNCHANGED <<clients, lap, gone, tvars>>

ApiMovePlayer(id) == Move(id, SampleSteps)

ApiNext ==
    \E id \in Conns : ApiAddPlayer(id) \/ ApiRemovePlayer(id) \/ ApiMovePlayer(id)

ApiSpec == Init /\ [][ApiNext]_vars

\* --------------------------------------- move_player from any board position

\* the step counts tried: none, two that stay on the board or pass its end,
\* and a whole lap
MoveSteps == {0, 5, 10, BoardSize}

\* Two players, the first anywhere on the board with the money it started
\* with (move_player takes any step count, so every position is one call
\* away from the start)
MoveInit ==
    \E p \in 0..(BoardSize - 1) :
        /\ game_state =
              [board             |-> Board,
               players           |-> <<[Player(1) EXCEPT !.position = p], Player(2)>>,
               current_player_id |-> 1,
               dice_roll         |-> NoDice,
               game_phase        |-> "playing",
               turn_number       |-> 0]
        /\ clients = <<1, 2>>
        /\ rolls = 0
        /\ last = NoOp
        /\ lap = <<1>>
        /\ gone = {}
        /\ ThreadsInit

MovePlayer(id) == Move(id, MoveSteps)

MoveNext == \E id \in Conns : MovePlayer(id)

MoveSpec == MoveInit /\ [][MoveNext]_vars

\* ----------------------------------------------- the snapshot on the wire

\* BoardSpace (game_state.py line 90): a member of the Enum; it is no str,
\* int, list or dict
BoardSpace(name) == [enum |-> "BoardSpace", member |-> name]

\* Board._create_board_spaces: the "type" of the spaces of the board
BoardSpaces ==
    <<BoardSpace("GO"), BoardSpace("PROPERTY"), BoardSpace("COMMUNITY_CHEST"),
      BoardSpace("PROPERTY"), BoardSpace("TAX")>>

\* Board.to_dict and the rest of GameState.to_dict: the dict made of the
\* fields gs holds; "spaces" is the list the board keeps, "properties" maps
\* each property id (an int) to its owner_id
Dict(gs) ==
    [spaces            |-> BoardSpaces,
     properties        |-> gs.board,
     players           |-> gs.players,
     current_player_id |-> gs.current_player_id,
     dice_roll         |-> gs.dice_roll,
     game_phase        |-> gs.game_phase,
     turn_number       |-> gs.turn_number]

\* GameState.to_dict, read at one instant
to_dict(gs) == Dict(gs)

\* _broadcast_game_state line 222: the kind of the message every send would
\* carry
GameStateMessage == "GAME_STATE"

TypeError == "TypeError"

\* json.dumps writes the keys of a dict as strings
JsonObject(f) ==
    [k \in {ToString(p) : p \in DOMAIN f}
        |-> f[CHOOSE p \in DOMAIN f : ToString(p) = k]]

\* Message.to_json: json.dumps of {"type": name, "data": data}.  The default
\* encoder raises TypeError for a value that is no dict, list, tuple, str,
\* number, bool or None: a member of an Enum is none of these.
to_json(type, data) ==
    IF \E i \in 1..Len(data.spaces) : "enum" \in DOMAIN data.spaces[i]
    THEN TypeError
    ELSE [kind |-> "json", type |-> type, data |-> TRUE,
          body |-> [data EXCEPT !.properties = JsonObject(@)]]

\* ------------------------------------------- the connection threads (server.py)

MsgKinds == {"roll_dice", "end_turn", "buy_property", "other"}

\* `with self.lock:` is entered only when no thread holds the lock
LockIgnored == TRUE

LockFree == lock = NoThread

\* the game states a thread reading game_state without the lock lives through
Observe(gs) ==
    [t \in Conns |-> IF pc[t] \in {"bc_snap", "bc_rest"}
                     THEN seen[t] \cup {gs} ELSE seen[t]]

\* `with self.lock:` left by an exception: the lock is released when the
\* thread of connection c holds it
UnwindHeld(c) == lock

Unwind(c) == IF lock = c THEN NoThread ELSE lock

\* where an exception raised in the try block takes the thread: the finally
\* clause removes the client when it is registered
FinallyPc(c) == IF InClients(c) THEN "leave" ELSE "done"

\* _accept_connections and _handle_client lines 105-115: a connection is
\* accepted, its thread started and its first message read; anything but a
\* CONNECT (no data, another kind, an unparsable payload) ends the thread
Accept(c) ==
    /\ c <= NumThreads
    /\ pc[c] = "idle"
    /\ \E p \in FirstPayloads :
         /\ hello' = [hello EXCEPT ![c] = p]
         /\ pc' = [pc EXCEPT ![c] = IF FirstIsConnect(p) THEN "join" ELSE "done"]
    /\ UNCHANGED <<client, game_state, clients, hvars, lock, sock, msg, msg_player_id,
                   caller, iter, snap, seen, sent>>

\* _handle_client line 117: with self.lock
JoinAcquire(c) ==
    /\ pc[c] = "join"
    /\ LockFree
    /\ lock' = c
    /\ pc' = [pc EXCEPT ![c] = "joining"]
    /\ UNCHANGED <<client, game_state, clients, hvars, sock, msg, msg_player_id, caller,
                   iter, snap, seen, hello, sent>>

\* _handle_client lines 118-122: add_player, registration, end of the with
\* block; then the call of _broadcast_game_state at line 127
JoinApply(c) ==
    /\ pc[c] = "joining"
    /\ game_state' = add_player(game_state, c)
    /\ clients' = Append(clients, c)
    /\ last' = Invoked("add_player", c)
    /\ seen' = Observe(game_state')
    /\ lock' = NoThread
    /\ pc' = [pc EXCEPT ![c] = "bc_iter"]
    /\ caller' = [caller EXCEPT ![c] = "join"]
    /\ UNCHANGED <<client, rolls, lap, gone, sock, msg, msg_player_id, iter, snap,
                   hello, sent>>

\* GameState.to_dict line 241: the comprehension starts iterating players
BcIter(c) ==
    /\ pc[c] = "bc_iter"
    /\ iter' = [iter EXCEPT ![c] = Len(game_state.players)]
    /\ seen' = [seen EXCEPT ![c] = {game_state}]
    /\ pc' = [pc EXCEPT ![c] = "bc_snap"]
    /\ UNCHANGED <<client, game_state, clients, hvars, lock, sock, msg, msg_player_id,
                   caller, snap, hello, sent>>

\* GameState.to_dict line 241: the iteration ends; a dict whose size changed
\* meanwhile raises RuntimeError, which leaves _handle_client's try block
\* (or, raised in the finally clause, ends the thread: "crashed")
BcSnap(c) ==
    /\ pc[c] = "bc_snap"
    /\ IF Len(game_state.players) # iter[c]
       THEN /\ pc' = [pc EXCEPT ![c] = IF caller[c] = "leave" THEN "crashed"
                                        ELSE FinallyPc(c)]
            /\ lock' = Unwind(c)
            /\ caller' = [caller EXCEPT ![c] = "none"]
            /\ seen' = [seen EXCEPT ![c] = {}]
            /\ snap' = snap
       ELSE /\ snap' = [snap EXCEPT ![c].players = game_state.players]
            /\ pc' = [pc EXCEPT ![c] = "bc_rest"]
            /\ UNCHANGED <<client, lock, caller, seen>>
    /\ iter' = [iter EXCEPT ![c] = 0]
    /\ UNCHANGED <<client, game_state, clients, hvars, sock, msg, msg_player_id,
                   hello, sent>>

\* GameState.to_dict lines 242-245: the turn fields
BcRest(c) ==
    /\ pc[c] = "bc_rest"
    /\ snap' = [snap EXCEPT ![c] = [game_state EXCEPT !.players = snap[c].players]]
    /\ seen' = [seen EXCEPT ![c] = @ \cap {snap'[c]}]
    /\ pc' = [pc EXCEPT ![c] = "bc_json"]
    /\ UNCHANGED <<client, game_state, clients, hvars, lock, sock, msg, msg_player_id,
                   caller, iter, hello, sent>>

\* _broadcast_game_state lines 222-223: GameStateMessage(game_state_dict)
\* .to_json().  json.dumps raises TypeError, outside the try of the send
\* loop: the exception leaves _broadcast_game_state before line 226, and
\* with it the with block of _process_message (releasing the lock) and the
\* try block of _handle_client; raised in the finally clause it ends the
\* thread ("crashed").  The send loop of lines 226-230 follows only a
\* to_json that returns.
BcJson(c) ==
    /\ pc[c] = "bc_json"
    /\ to_json(GameStateMessage, Dict(snap[c])) = TypeError
    /\ pc' = [pc EXCEPT ![c] = IF caller[c] = "leave" THEN "crashed"
                               ELSE FinallyPc(c)]
    /\ lock' = Unwind(c)
    /\ caller' = [caller EXCEPT ![c] = "none"]
    /\ snap' = [snap EXCEPT ![c] = NewGameState]
    /\ seen' = [seen EXCEPT ![c] = {}]
    /\ UNCHANGED <<client, game_state, clients, hvars, sock, msg, msg_player_id, iter,
                   hello, sent>>

\* _handle_client lines 131-135: recv returns a message of one of MsgKinds
\* whose "player_id" is one of ids
Receive(c, ids) ==
    /\ pc[c] = "recv"
    /\ sock[c] = "open"
    /\ \E k \in MsgKinds, id \in ids :
         /\ msg' = [msg EXCEPT ![c] = k]
         /\ msg_player_id' = [msg_player_id EXCEPT ![c] = id]
         /\ pc' = [pc EXCEPT ![c] = "msg"]
    /\ UNCHANGED <<client, game_state, clients, hvars, lock, sock, caller, iter, snap,
                   seen, hello, sent>>

\* a message of client.py: PlayerActionMessage(self.player_id, ...)
RecvMsg(c) == Receive(c, {c})

\* a message that names any player
RecvForged(c) == Receive(c, Conns)

\* _handle_client lines 131-133: recv returns no data (EOF): break
RecvEof(c) ==
    /\ pc[c] = "recv"
    /\ sock[c] = "open"
    /\ pc' = [pc EXCEPT ![c] = FinallyPc(c)]
    /\ sock' = [sock EXCEPT ![c] = "closed"]
    /\ UNCHANGED <<client, game_state, clients, hvars, lock, msg, msg_player_id, caller, iter,
                   snap, seen, hello, sent>>

Recv(c) == RecvMsg(c) \/ RecvEof(c)

\* _handle_client line 136 and _process_message lines 162-167: the id the
\* handlers are called with is the client_id of the connection's thread
ActorFromMessage(c) == msg_player_id[c]

Actor(c) == c

\* _process_message line 155: with self.lock
MsgAcquire(c) ==
    /\ pc[c] = "msg"
    /\ LockFree
    /\ lock' = c
    /\ pc' = [pc EXCEPT ![c] = "msg_cs"]
    /\ UNCHANGED <<client, game_state, clients, hvars, sock, msg, msg_player_id, caller,
                   iter, snap, seen, hello, sent>>

\* _process_message lines 156-171: the action's handler, then the call of
\* _broadcast_game_state inside the with block.  _handle_buy_property is not
\* defined: the call raises AttributeError, which leaves the with block
\* (releasing the lock) and _handle_client's try block.
Dispatch(c) ==
    /\ pc[c] = "msg_cs"
    /\ last' = Invoked(msg[c], c)
    /\ IF msg[c] = "roll_dice"
       THEN \E d1 \in Draws(Actor(c), SampleFaces),
               d2 \in Draws(Actor(c), SampleFaces) :
               game_state' = handle_dice_roll(game_state, Actor(c), d1, d2)
       ELSE IF msg[c] = "end_turn"
       THEN game_state' = handle_end_turn(game_state, Actor(c))
       ELSE game_state' = game_state
    /\ rolls' = IF msg[c] = "roll_dice" /\ game_state' # game_state
                THEN rolls + 1 ELSE rolls
    /\ seen' = Observe(game_state')
    /\ IF msg[c] = "buy_property"
       THEN /\ lock' = Unwind(c)
            /\ pc' = [pc EXCEPT ![c] = FinallyPc(c)]
            /\ caller' = caller
       ELSE /\ lock' = lock
            /\ pc' = [pc EXCEPT ![c] = "bc_iter"]
            /\ caller' = [caller EXCEPT ![c] = "msg"]
    /\ UNCHANGED <<client, clients, lap, gone, sock, msg, msg_player_id, iter, snap,
                   hello, sent>>

\* _handle_client line 143: with self.lock
LeaveAcquire(c) ==
    /\ pc[c] = "leave"
    /\ LockFree
    /\ lock' = c
    /\ pc' = [pc EXCEPT ![c] = "leaving"]
    /\ UNCHANGED <<client, game_state, clients, hvars, sock, msg, msg_player_id, caller,
                   iter, snap, seen, hello, sent>>

\* _handle_client lines 144-149: remove_player, deregistration, end of the
\* with block; then the call of _broadcast_game_state
LeaveApply(c) ==
    /\ pc[c] = "leaving"
    /\ game_state' = remove_player(game_state, c)
    /\ clients' = SelectSeq(clients, LAMBDA x : x # c)
    /\ last' = Invoked("remove_player", c)
    /\ seen' = Observe(game_state')
    /\ lock' = NoThread
    /\ pc' = [pc EXCEPT ![c] = "bc_iter"]
    /\ caller' = [caller EXCEPT ![c] = "leave"]
    /\ UNCHANGED <<client, rolls, lap, gone, sock, msg, msg_player_id, iter, snap,
                   hello, sent>>

\* the peer of a registered session stops reading and writing for good
PeerStall(c) ==
    /\ InClients(c)
    /\ sock[c] = "open"
    /\ Cardinality({t \in Conns : sock[t] = "stalled"}) < MaxStalled
    /\ sock' = [sock EXCEPT ![c] = "stalled"]
    /\ UNCHANGED <<client, game_state, clients, hvars, pc, lock, msg, msg_player_id, caller,
                   iter, snap, seen, hello, sent>>

\* the steps of the thread of connection c up to its receive loop, and those
\* of the finally clause
ConnStep(c) ==
    \/ Accept(c) \/ JoinAcquire(c) \/ JoinApply(c)
    \/ BcIter(c) \/ BcSnap(c) \/ BcRest(c) \/ BcJson(c)
    \/ LeaveAcquire(c) \/ LeaveApply(c)

ConnNext == \E c \in Conns : ConnStep(c)

\* the server from its start
ConnSpec == Init /\ [][ConnNext]_vars

\* the connections whose sessions are taken to be registered, with their
\* threads in the receive loop (line 130): all but the last
Established == 1..(NumConns - 1)

EstablishedGame ==
    [NewGameState EXCEPT
       !.players = [i \in Established |-> Player(i)],
       !.current_player_id = 1,
       !.game_phase = "playing"]

EstablishedInit ==
    /\ game_state = EstablishedGame
    /\ clients = [i \in Established |-> i]
    /\ rolls = 0
    /\ last = NoOp
    /\ lap = << >>
    /\ gone = {}
    /\ pc = [c \in Conns |-> IF c \in Established THEN "recv" ELSE "idle"]
    /\ lock = NoThread
    /\ sock = [c \in Conns |-> "open"]
    /\ msg = [c \in Conns |-> "none"]
    /\ msg_player_id = [c \in Conns |-> NoPlayer]
    /\ caller = [c \in Conns |-> "none"]
    /\ iter = [c \in Conns |-> 0]
    /\ snap = [c \in Conns |-> NewGameState]
    /\ seen = [c \in Conns |-> {}]
    /\ hello = [c \in Conns |-> IF c \in Established
                               THEN Payload("json", "CONNECT", TRUE)
                               ELSE NoPayload]
    /\ sent = [c \in Conns |-> << >>]

ConcInit ==
    /\ EstablishedInit
    /\ client = [c \in Conns |-> MonopolyClient(ControlPanel)]

\* one step of the thread of connection c
ThreadStep(c) ==
    ConnStep(c) \/ Recv(c) \/ MsgAcquire(c) \/ Dispatch(c)

ConcNext == \E c \in Conns : ThreadStep(c) \/ PeerStall(c)

ConcSpec == ConcInit /\ [][ConcNext]_vars

\* what a registered client sends that is no PLAYER_ACTION: bytes that are
\* not JSON, a message of an unknown kind, a DISCONNECT message, another
\* CONNECT message
OddPayloads ==
    {Payload("garbage", "", FALSE),
     Payload("json", "BOGUS", TRUE),
     Payload("json", "DISCONNECT", TRUE),
     Payload("json", "CONNECT", TRUE)}

\* _handle_client lines 131-136: recv returns one of these payloads and
\* from_json makes a message of it; msg is then the type of that message
RecvOdd(c) ==
    /\ pc[c] = "recv"
    /\ sock[c] = "open"
    /\ \E p \in OddPayloads : msg' = [msg EXCEPT ![c] = from_json(p)]
    /\ pc' = [pc EXCEPT ![c] = "msg"]
    /\ UNCHANGED <<client, game_state, clients, hvars, lock, sock, msg_player_id,
                   caller, iter, snap, seen, hello, sent>>

\* the threads of clients that send such payloads or disconnect
ProtoStep(c) ==
    ConnStep(c) \/ RecvOdd(c) \/ RecvEof(c) \/ MsgAcquire(c) \/ Dispatch(c)

ProtoNext == \E c \in Conns : ProtoStep(c)

ProtoSpec == ConcInit /\ [][ProtoNext]_vars

\* the threads of the registered sessions, whose clients send messages that
\* name any player
ForgeStep(c) ==
    \/ RecvForged(c) \/ MsgAcquire(c) \/ Dispatch(c)
    \/ BcIter(c) \/ BcSnap(c) \/ BcRest(c) \/ BcJson(c)
    \/ LeaveAcquire(c) \/ LeaveApply(c)

ForgeNext == \E c \in Conns : ForgeStep(c)

ForgeSpec == ConcInit /\ [][ForgeNext]_vars

\* the steps a thread takes on its own once it can run: everything but the
\* reads from the peer (Accept, Recv), which wait for the client
Acquire(c) == JoinAcquire(c) \/ MsgAcquire(c) \/ LeaveAcquire(c)

Run(c) ==
    \/ JoinApply(c) \/ BcIter(c) \/ BcSnap(c) \/ BcRest(c) \/ BcJson(c)
    \/ Dispatch(c) \/ LeaveApply(c)

\* fair scheduling of the threads: a thread that can run does, and a thread
\* that waits for the lock gets it if the lock keeps being released
FairConcSpec ==
    /\ ConcSpec
    /\ \A c \in Conns : WF_vars(Run(c)) /\ SF_vars(Acquire(c))

\* ------------------------------------------------- the clients (client.py)

\* the name of the player with the given id: the player_name of the CONNECT
\* of its connection (server.py lines 114-119)
NameOf(id) == client[id].player_name

\* MonopolyClient.register_player, called by start_game for each name
\* entered (the names are distinct): the client, connected, sends another
\* ConnectMessage on its connection.  The game is started on one client.
RegisterPlayer(c) ==
    /\ pc[c] # "idle" /\ FirstIsConnect(hello[c])
    /\ sock[c] = "open"
    /\ \A d \in Conns \ {c} : client[d].registering = {}
    /\ \E n \in PlayerNames \ client[c].registering :
         client' = [client EXCEPT ![c].registering = @ \cup {n}]
    /\ UNCHANGED <<game_state, clients, hvars, pc, lock, sock, msg,
                   msg_player_id, caller, iter, snap, seen, hello, sent>>

\* the server from its start, with clients that register the names entered
RegisterNext == \E c \in Conns : ConnStep(c) \/ RegisterPlayer(c)

RegisterSpec == Init /\ [][RegisterNext]_vars

FairRegisterSpec ==
    /\ RegisterSpec
    /\ \A c \in Conns : WF_vars(Run(c)) /\ SF_vars(Acquire(c))

\* MonopolyClient._handle_game_state lines 140-146: a client without a
\* player_id takes the id of the first player of the message whose name is
\* its own player_name
handle_game_state(cl, ps) ==
    IF cl.player_id = NoPlayer
         /\ \E i \in 1..Len(ps) : NameOf(ps[i].id) = cl.player_name
    THEN [cl EXCEPT !.player_id =
            ps[CHOOSE i \in 1..Len(ps) :
                  /\ NameOf(ps[i].id) = cl.player_name
                  /\ \A j \in 1..(i - 1) :
                        NameOf(ps[j].id) # cl.player_name].id]
    ELSE cl

\* a GAME_STATE message that carries the players of the game state is
\* handled by the client of a registered session
HandleGameState(c) ==
    /\ InClients(c)
    /\ sock[c] = "open"
    /\ client' = [client EXCEPT ![c] = handle_game_state(@, game_state.players)]
    /\ UNCHANGED <<game_state, clients, hvars, pc, lock, sock, msg,
                   msg_player_id, caller, iter, snap, seen, hello, sent>>

\* the sessions registered by clients with any of the names
ClientInit ==
    /\ EstablishedInit
    /\ client \in [Conns -> {MonopolyClient(n) : n \in {ControlPanel} \cup PlayerNames}]

\* the clients of the registered sessions handle GAME_STATE messages and
\* disconnect
ClientNext ==
    \E c \in Conns :
        \/ HandleGameState(c) \/ RecvEof(c)
        \/ LeaveAcquire(c) \/ LeaveApply(c)
        \/ BcIter(c) \/ BcSnap(c) \/ BcRest(c) \/ BcJson(c)

ClientSpec == ClientInit /\ [][ClientNext]_vars

\* ------------------------------------------------------------------ claims

players == game_state.players
current == game_state.current_player_id

\* the id that follows id in the cyclic insertion order ids
CyclicNext(ids, id) == ids[((Index0(ids, id) + 1) % Len(ids)) + 1]

\* C1: current_player_id is null or the id of a player present in the
\* player mapping, after any sequence of joins, leaves, rolls and end_turns.
C1_CurrentIsPresentOrNull ==
    current = NoPlayer \/ \E i \in 1..Len(players) : players[i].id = current

\* C1 witness: the current player has just been removed while others stay.
C1_Witness ==
    /\ last.op = "remove_player" /\ last.who = last.cur
    /\ Len(players) >= 1 /\ current # NoPlayer

\* C2: a roll_dice sent by a session that is not the current player changes
\* nothing in the game state.
C2_WrongTurnRollChangesNothing ==
    [][(last'.op = "roll_dice" /\ last'.who # current)
          => game_state' = game_state]_vars

\* C2 witness: a registered player who does not hold the turn has rolled.
C2_Witness ==
    /\ last.op = "roll_dice" /\ last.who # last.cur
    /\ \E i \in 1..Len(players) : players[i].id = last.who

\* C3: a roll_dice by the current player sets dice_roll to two values in
\* 1..6, moves that player to (old position + d1 + d2) mod 40 and leaves
\* current_player_id and turn_number as they were.
C3_RollMovesCurrentPlayer ==
    [][(last'.op = "roll_dice" /\ last'.who = current)
          => LET d == game_state'.dice_roll
             IN  /\ d[1] \in 1..6 /\ d[2] \in 1..6
                 /\ Len(game_state'.players) = Len(players)
                 /\ \A i \in 1..Len(players) :
                       players[i].id = current =>
                         game_state'.players[i].position
                            = (players[i].position + d[1] + d[2]) % 40
                 /\ game_state'.current_player_id = current
                 /\ game_state'.turn_number = game_state.turn_number]_vars

\* C3 witness: the current player's roll took it past the end of the board.
C3_Witness ==
    /\ last.op = "roll_dice" /\ last.who = last.cur
    /\ game_state.dice_roll # NoDice
    /\ \E i \in 1..Len(players) :
          /\ players[i].id = last.who
          /\ players[i].position < game_state.dice_roll[1] + game_state.dice_roll[2]

\* C4: an end_turn by the current player passes the turn to the next player
\* in insertion order (wrapping), adds 1 to turn_number and clears the dice;
\* an end_turn by any other player changes nothing.
C4_EndTurnAdvances ==
    [][last'.op = "end_turn"
          => IF last'.who = current
             THEN /\ game_state'.current_player_id
                       = CyclicNext(Keys(players), last'.who)
                  /\ game_state'.turn_number = game_state.turn_number + 1
                  /\ game_state'.dice_roll = <<0, 0>>
                  /\ game_state'.players = players
                  /\ game_state'.game_phase = game_state.game_phase
             ELSE game_state' = game_state]_vars

\* C4 witness: the last of three players ended its turn after rolling, and
\* the turn wrapped to the first.
C4_Witness ==
    /\ last.op = "end_turn" /\ last.who = last.cur
    /\ Len(players) = 3
    /\ last.who = players[3].id /\ current = players[1].id
    /\ rolls > 0

\* C5: with a fixed set of n players, the turn passes through the players in
\* insertion order, each once, and n accepted end_turns bring it back to the
\* player who held it at the start.
C5_LapInInsertionOrder ==
    LET n == Len(players)
    IN  lap # << >> =>
          /\ \A k \in 1..Len(lap) :
                lap[k] = Keys(players)[((Index0(Keys(players), lap[1]) + k - 1) % n) + 1]
          /\ Len(lap) > n => lap[n + 1] = lap[1]

\* C5 witness: three players, three accepted end_turns with no join or leave.
C5_Witness == Len(players) = 3 /\ Len(lap) = 4

\* C6: when the current player is removed and others remain, the turn goes
\* to the player that followed it in the cyclic insertion order.
C6_RemoveCurrentAdvancesToFollower ==
    [][(last'.op = "remove_player" /\ last'.who = current /\ Len(players) >= 2)
          => game_state'.current_player_id
                = CyclicNext(Keys(players), last'.who)]_vars

\* ---- the connection threads

BcPcs == {"bc_iter", "bc_snap", "bc_rest", "bc_json"}

\* thread t is inside a with self.lock block
InCritical(t) ==
    \/ pc[t] \in {"joining", "leaving", "msg_cs"}
    \/ pc[t] \in BcPcs /\ caller[t] = "msg"

\* thread t has built the snapshot of a broadcast and is about to encode it
Encoding(t) == pc[t] = "bc_json"

\* C7: the game state and the client registry change only in a step of the
\* thread that holds the server lock, and no two threads are inside a
\* with-lock block at the same time.
C7_MutationsUnderLock ==
    /\ [](\A t \in Conns : InCritical(t) => lock = t)
    /\ [][(game_state' # game_state \/ clients' # clients)
            => /\ lock \in Conns
               /\ InCritical(lock)
               /\ pc'[lock] # pc[lock]
               /\ \A t \in Conns \ {lock} : pc'[t] = pc[t]]_vars

\* C7 witness: one thread is dispatching an action under the lock while the
\* other waits at a with self.lock.
C7_Witness ==
    \E t \in Conns, u \in Conns :
        /\ t # u /\ lock = t /\ pc[t] = "msg_cs" /\ msg[t] = "end_turn"
        /\ pc[u] \in {"join", "msg", "leave"}

\* C8: every snapshot a broadcast builds for its GAME_STATE message is the
\* game state as it was at one instant (one of the states that existed while
\* the thread read it).
C8_SnapshotIsOneState ==
    \A t \in Conns : Encoding(t) => snap[t] \in seen[t]

\* the handling of a message read by thread t is still going on
Handling(t) ==
    \/ pc[t] \in {"msg", "msg_cs"}
    \/ pc[t] \in BcPcs /\ caller[t] = "msg"

\* the sessions thread t has called sendall for
SentTo(t) == [i \in 1..Len(sent[t]) |-> sent[t][i].to]

\* C10: under fair scheduling, an action read from a client is eventually
\* processed and broadcast: its thread comes to send a GAME_STATE message,
\* whatever the other clients do.
C10_ActionsEventuallyBroadcast ==
    \A t \in Conns : (pc[t] = "msg") ~> (sent[t] # << >>)

\* C11: the handling of a message dispatched to _process_message, whatever
\* its action or kind, ends only when a GAME_STATE broadcast has been sent to
\* every registered session; only then is the client's next message read.
C11_DispatchEndsWithBroadcast ==
    [][\A t \in Conns :
          (Handling(t) /\ ~Handling(t)')
             => /\ pc'[t] = "recv"
                /\ InClients(t)
                /\ SentTo(t) = clients]_vars

\* the sessions registered no later than session t, in registration order
UpTo(t) == SubSeq(clients, 1, Index0(clients, t) + 1)

\* C12: after a CONNECT first message the thread registers the session and
\* adds exactly one player for it, and what follows the registration ends
\* only when a GAME_STATE message containing the new player has been sent to
\* the sessions registered by then, the new one included.
C12_ConnectRegistersThenBroadcasts ==
    [][\A t \in Conns :
          /\ (pc[t] = "joining" /\ pc'[t] # "joining")
                => /\ clients' = Append(clients, t)
                   /\ Len(game_state'.players) = Len(players) + 1
                   /\ SubSeq(game_state'.players, 1, Len(players)) = players
                   /\ game_state'.players[Len(players) + 1].id = t
          /\ (caller[t] = "join" /\ caller'[t] # "join")
                => /\ pc'[t] = "recv"
                   /\ HasKey(snap[t].players, t)
                   /\ InClients(t)
                   /\ \A i \in 1..Len(UpTo(t)) :
                         \E j \in 1..Len(sent[t]) : sent[t][j].to = UpTo(t)[i]]_vars

\* C13: a registered client whose read returned EOF (or failed) is eventually
\* removed from the registry and from the game state, and then a GAME_STATE
\* message without that player is sent to every session the registry then
\* holds: the thread comes to the end of that broadcast.
C13_EofRemovesThenBroadcasts ==
    /\ \A t \in Conns :
          (pc[t] = "leave" /\ sock[t] = "closed")
             ~> (pc[t] = "done" /\ ~InClients(t) /\ ~HasKey(players, t))
    /\ [][\A t \in Conns :
            /\ (pc[t] = "leaving" /\ pc'[t] # "leaving")
                  => /\ \A i \in 1..Len(clients') : clients'[i] # t
                     /\ ~HasKey(game_state'.players, t)
            /\ (caller[t] = "leave" /\ caller'[t] # "leave")
                  => /\ pc'[t] = "done"
                     /\ ~HasKey(snap[t].players, t)
                     /\ SentTo(t) = clients]_vars

\* a payload that is a message envelope of kind CONNECT
WellFormedConnect(p) == p.kind = "json" /\ p.type = "CONNECT" /\ p.data

\* the first payload of connection c has arrived and was no CONNECT envelope
Rejected(c) == hello[c] # NoPayload /\ ~WellFormedConnect(hello[c])

\* C14: when the first payload of a connection is not a CONNECT message or
\* not a well-formed envelope (or the peer closes first), the thread ends
\* without registering: that step changes neither the game state nor the
\* registry, and afterwards no session or player stands for the connection
\* and no snapshot being broadcast holds a player for it.
C14_BadFirstMessageRegistersNothing ==
    /\ [](\A c \in Conns :
            Rejected(c) => /\ pc[c] = "done"
                           /\ ~InClients(c)
                           /\ ~HasKey(players, c)
                           /\ \A t \in Conns : ~HasKey(snap[t].players, c))
    /\ [][\A c \in Conns :
            (pc[c] = "idle" /\ pc'[c] # "idle" /\ ~WellFormedConnect(hello'[c]))
               => game_state' = game_state /\ clients' = clients]_vars

\* C14 witness: a connection whose first payload was a CONNECT without a
\* "data" member has ended while another session's join broadcast has its
\* snapshot built.
C14_Witness ==
    \E c \in Conns, t \in Conns :
        /\ Rejected(c) /\ hello[c].type = "CONNECT" /\ pc[c] = "done"
        /\ Encoding(t) /\ snap[t].players # << >>

\* ---- the game state again

\* C16: current_player_id is null exactly when no player is present, and
\* game_phase is "playing" exactly when at least one player is present, and
\* "waiting_for_players" otherwise.
C16_CurrentAndPhaseFollowPlayers ==
    /\ (current = NoPlayer) <=> (players = << >>)
    /\ (game_state.game_phase = "playing") <=> (players # << >>)
    /\ players = << >> => game_state.game_phase = "waiting_for_players"

\* C16 witness: the game was played and the last player has left again.
C16_Witness ==
    /\ players = << >> /\ last.op = "remove_player"
    /\ rolls > 0 /\ game_state.dice_roll # NoDice

\* C17: when remove_player removes the only player left, game_phase becomes
\* "waiting_for_players", current_player_id null and turn_number 0.
C17_RemovingLastPlayerResets ==
    [][(last'.op = "remove_player" /\ Keys(players) = <<last'.who>>)
          => /\ game_state'.players = << >>
             /\ game_state'.game_phase = "waiting_for_players"
             /\ game_state'.current_player_id = NoPlayer
             /\ game_state'.turn_number = 0]_vars

\* C17 witness: the last player was removed when turn_number was above 0.
C17_Witness ==
    /\ last.op = "remove_player" /\ last.turn > 0 /\ last.who = last.cur
    /\ players = << >> /\ game_state.turn_number = 0

\* C18: add_player with a new id appends a player at position 0 with 1500
\* money after the existing ones; the first player of a waiting game becomes
\* current and the phase "playing"; with players present, current_player_id,
\* turn_number, dice_roll, the phase and every existing player are unchanged.
C18_AddPlayerFrame ==
    [][(last'.op = "add_player" /\ ~HasKey(players, last'.who))
          => LET n == Len(players)
                 g == game_state'
             IN  /\ Len(g.players) = n + 1
                 /\ g.players[n + 1] = [id |-> last'.who, position |-> 0,
                                        money |-> 1500,
                                        owned_properties |-> << >>]
                 /\ SubSeq(g.players, 1, n) = players
                 /\ (n = 0 /\ game_state.game_phase = "waiting_for_players")
                       => /\ g.current_player_id = last'.who
                          /\ g.game_phase = "playing"
                 /\ n > 0
                       => /\ g.current_player_id = current
                          /\ g.turn_number = game_state.turn_number
                          /\ g.dice_roll = game_state.dice_roll
                          /\ g.game_phase = game_state.game_phase]_vars

\* C18 witness: a third player has joined a game in which turns were taken,
\* dice are on the table and a player has moved.
C18_Witness ==
    /\ last.op = "add_player" /\ Len(players) = 3
    /\ players[3].id = last.who /\ last.cur # last.who
    /\ last.turn > 0 /\ game_state.dice_roll # NoDice
    /\ \E i \in 1..2 : players[i].position > 0

\* C19: add_player with an id that is already present leaves the game state
\* unmodified: the existing player keeps its position, its money and its
\* place in the turn order.
C19_DuplicateAddChangesNothing ==
    [][(last'.op = "add_player" /\ HasKey(players, last'.who))
          => game_state' = game_state]_vars

\* C20: removing a player who does not hold the turn leaves
\* current_player_id, turn_number and dice_roll unchanged and only drops that
\* player; from then on a removed player never holds the turn, and every
\* accepted end_turn passes the turn to the next remaining player in
\* insertion order.
C20_RemovingOtherPlayerKeepsTurn ==
    /\ [](/\ current \notin gone
          /\ \A k \in 1..Len(lap) : lap[k] \notin gone
          /\ \A i \in 1..Len(players) : players[i].id \notin gone)
    /\ [][/\ (last'.op = "remove_player" /\ last'.who # current
                 /\ HasKey(players, last'.who))
               => /\ game_state'.current_player_id = current
                  /\ game_state'.turn_number = game_state.turn_number
                  /\ game_state'.dice_roll = game_state.dice_roll
                  /\ game_state'.game_phase = game_state.game_phase
                  /\ game_state'.players = DelKey(players, last'.who)
          /\ (last'.op = "end_turn" /\ last'.who = current /\ gone # {})
               => game_state'.current_player_id
                     = CyclicNext(Keys(players), current)]_vars

\* C20 witness: of three players the second was removed while the first
\* held the turn, and the turn has since gone to the third and back.
C20_Witness ==
    /\ gone = {2} /\ Keys(players) = <<1, 3>>
    /\ lap = <<1, 3, 1>>



\* the record of the player id in the players ps
PlayerOf(ps, id) == ps[Index0(Keys(ps), id) + 1]

\* C21: for a present player, move_player(id, steps) sets and returns the
\* position (old + steps) mod 40 and adds exactly 200 to that player's money
\* if and only if the new position is below the old one; steps 0 and 40
\* change neither position nor money, 35 moved by 10 gives 5 and +200, and
\* 10 moved by 5 gives 15 and no credit.
C21_MovePlayerWrapsAndCredits ==
    [][(last'.op = "move_player" /\ HasKey(players, last'.who))
          => LET id    == last'.who
                 steps == last'.arg
                 old   == PlayerOf(players, id)
                 new   == PlayerOf(game_state'.players, id)
             IN  /\ new.position = (old.position + steps) % 40
                 /\ last'.ret = new.position
                 /\ new.money = old.money
                        + (IF new.position < old.position THEN 200 ELSE 0)
                 /\ steps \in {0, 40}
                       => new.position = old.position /\ new.money = old.money
                 /\ (old.position = 35 /\ steps = 10)
                       => new.position = 5 /\ new.money = old.money + 200
                 /\ (old.position = 10 /\ steps = 5)
                       => new.position = 15 /\ new.money = old.money]_vars

\* C21 witness: a move by 10 steps returned position 5 and the player was
\* paid for passing GO once.
C21_Witness ==
    /\ last.op = "move_player" /\ last.arg = 10 /\ last.ret = 5
    /\ HasKey(players, last.who)
    /\ PlayerOf(players, last.who).position = 5
    /\ PlayerOf(players, last.who).money = StartMoney + GoBonus

\* C22: within one turn the current player's roll_dice is accepted at most
\* once (not again before end_turn), and end_turn is accepted only after
\* that turn's roll.  The dice are (0,0) exactly while the turn has had no
\* roll: every turn starts with them cleared.
C22_RollOnceThenEndTurn ==
    [][/\ (last'.op = "roll_dice" /\ last'.who = current
             /\ game_state.dice_roll # NoDice)
          => game_state' = game_state
       /\ (last'.op = "end_turn" /\ last'.who = current
             /\ game_state.dice_roll = NoDice)
          => game_state' = game_state]_vars

\* thread t is answering an action it rejected because t is not the current
\* player (it holds the lock from the dispatch on, so last is its own)
WrongTurn(t) ==
    /\ caller[t] = "msg"
    /\ last.who = t /\ last.op \in {"roll_dice", "end_turn"}
    /\ last.cur # t

\* C23: when a roll_dice or end_turn is rejected because the sender is not
\* the current player, the server answers with an ERROR message to the
\* originating connection, and sends nothing to any other connection: the
\* handling of the rejected action ends only when that is done.
C23_WrongTurnAnswersError ==
    [][\A t \in Conns :
          (WrongTurn(t) /\ Handling(t) /\ ~Handling(t)')
            => /\ sent[t] # << >>
               /\ \A i \in 1..Len(sent[t]) :
                     sent[t][i].to = t /\ sent[t][i].type = "ERROR"]_vars

Owned(p) == {p.owned_properties[i] : i \in 1..Len(p.owned_properties)}

\* C25: a buy_property for an unowned property by a player whose money is at
\* least the price takes exactly the price from that player's money, makes
\* the player the property's owner and adds the property to the player's
\* owned properties; and every property is listed in the owned set of its
\* owner and of nobody else.
C25_BuyTransfersProperty ==
    [][/\ \A t \in Conns :
            (/\ pc[t] = "msg_cs" /\ msg[t] = "buy_property" /\ pc'[t] # "msg_cs"
             /\ HasKey(players, t)
             /\ PlayerOf(players, t).money >= PropertyPrice
             /\ \E p \in PropertyIds : game_state.board[p] = NoPlayer)
              => \E p \in PropertyIds :
                    /\ game_state.board[p] = NoPlayer
                    /\ game_state'.board[p] = t
                    /\ HasKey(game_state'.players, t)
                    /\ PlayerOf(game_state'.players, t).money
                          = PlayerOf(players, t).money - PropertyPrice
                    /\ p \in Owned(PlayerOf(game_state'.players, t))
       /\ \A p \in PropertyIds : \A i \in 1..Len(game_state'.players) :
             p \in Owned(game_state'.players[i])
               <=> game_state'.board[p] = game_state'.players[i].id]_vars

C27_DisconnectMessageDeregisters ==
    [][\A t \in Conns :
          (msg[t] = "DISCONNECT" /\ pc[t] \notin {"done", "crashed"}
             /\ pc'[t] \in {"done", "crashed"})
            => /\ ~InClients(t)'
               /\ ~HasKey(game_state'.players, t)
               /\ SentTo(t) = clients']_vars

\* C28: a player's position and money change only through that player's own
\* validated action (its roll_dice while it is the current player): no
\* action of another client and no join or leave of another player changes
\* the position or the money of a player who stays in the game.
C28_OnlyOwnRollMovesPlayer ==
    [][\A i \in 1..Len(players) :
          LET p == players[i]
          IN  (/\ HasKey(game_state'.players, p.id)
               /\ \/ PlayerOf(game_state'.players, p.id).position # p.position
                  \/ PlayerOf(game_state'.players, p.id).money # p.money)
                => /\ last'.op = "roll_dice"
                   /\ last'.who = p.id
                   /\ current = p.id]_vars

\* C28 witness: another player joined after a player had passed GO, and
\* that player still has the position and the money its roll gave it.
C28_Witness ==
    /\ last.op = "add_player" /\ last.who # 1
    /\ HasKey(players, 1)
    /\ PlayerOf(players, 1).money = StartMoney + GoBonus
    /\ PlayerOf(players, 1).position = game_state.dice_roll[1] + game_state.dice_roll[2] - 1

\* C29: turn_number starts at 0, goes up by exactly 1 on each accepted
\* end_turn, is changed by no other action, and never decreases while a
\* player remains: it goes back to 0 only when the last player leaves.
C29_TurnNumberCountsEndTurns ==
    /\ game_state.turn_number = 0
    /\ [][LET t        == game_state.turn_number
              u        == game_state'.turn_number
              accepted == last'.op = "end_turn" /\ last'.who = current
          IN  /\ accepted => u = t + 1
              /\ u # t => \/ accepted
                          \/ /\ last'.op = "remove_player"
                             /\ game_state'.players = << >>
                             /\ u = 0
              /\ game_state'.players # << >> => u >= t]_vars

\* C29 witness: two end_turns were accepted, a player left and one remains,
\* and the counter still shows both.
C29_Witness ==
    /\ last.op = "remove_player"
    /\ players # << >>
    /\ game_state.turn_number = 2

\* C30: in every reachable state dice_roll is either (0,0) (unset) or a pair
\* whose two values are both in 1..6.
C30_DiceRollInRange ==
    \/ game_state.dice_roll = <<0, 0>>
    \/ /\ Len(game_state.dice_roll) = 2
       /\ game_state.dice_roll[1] \in 1..6
       /\ game_state.dice_roll[2] \in 1..6

\* C30 witness: the current player rolled a second time and the dice in the
\* game state are the largest pair.
C30_Witness ==
    /\ rolls = 2
    /\ last.op = "roll_dice" /\ last.who = last.cur
    /\ game_state.dice_roll = <<MaxFace, MaxFace>>

\* C31: remove_player and move_player called with an id that is no player
\* fail without changing the game state: remove_player returns False,
\* move_player returns -1 (no position), and players, current_player_id,
\* game_phase, turn_number and dice_roll are as before.
C31_UnknownIdChangesNothing ==
    [][(last'.op \in {"remove_player", "move_player"}
          /\ ~HasKey(players, last'.who))
          => /\ game_state'.players = players
             /\ game_state'.current_player_id = current
             /\ game_state'.game_phase = game_state.game_phase
             /\ game_state'.turn_number = game_state.turn_number
             /\ game_state'.dice_roll = game_state.dice_roll
             /\ last'.op = "remove_player" => last'.ret = FALSE
             /\ last'.op = "move_player" => last'.ret = -1]_vars

\* C31 witness: move_player was called for an id that is not among the
\* players of a running game, one of whom has moved.
C31_Witness ==
    /\ last.op = "move_player" /\ last.ret = -1
    /\ ~HasKey(players, last.who)
    /\ \E i \in 1..Len(players) : players[i].position > 0

\* ---- the snapshot on the wire

\* Message.from_json applied to what to_json gave: the data of the message
from_json_data(w) ==
    IF from_json(w) = "ERROR" THEN [error |-> "Invalid message format"]
    ELSE w.body

\* the players of a snapshot as ids with position and money
Standing(ps) ==
    [i \in 1..Len(ps) |->
        [id |-> ps[i].id, position |-> ps[i].position, money |-> ps[i].money]]

\* C32: the snapshot a broadcast has built encodes with to_json to a message
\* that from_json decodes to a GAME_STATE message with the same players (ids
\* with position and money), the same owner for every property and the same
\* current_player_id.
C32_SnapshotRoundTrips ==
    \A t \in Conns :
        Encoding(t) =>
          LET w == to_json(GameStateMessage, Dict(snap[t]))
          IN  IF w = TypeError THEN FALSE
              ELSE /\ from_json(w) = GameStateMessage
                   /\ Standing(from_json_data(w).players) = Standing(snap[t].players)
                   /\ \A p \in PropertyIds :
                         from_json_data(w).properties[ToString(p)] = snap[t].board[p]
                   /\ from_json_data(w).current_player_id
                         = snap[t].current_player_id

\* ---- the registry and the players

\* the elements of the sequence q
Range(q) == {q[i] : i \in 1..Len(q)}

\* C33: whenever no thread holds the lock, the session ids of the registry
\* are the ids of the players of the game state.
C33_RegistryMatchesPlayers ==
    lock = NoThread => Range(clients) = Range(Keys(players))

\* C33 witness: with the lock free, one session has been removed and two
\* are registered, one of them registered by a CONNECT since.
C33_Witness ==
    /\ lock = NoThread
    /\ Len(clients) = 2 /\ InClients(NumConns)
    /\ \E t \in Conns : pc[t] = "crashed" /\ ~InClients(t)

\* ---- whose action it is

\* C34: the player an action acts for is the session of the connection the
\* message came on, whatever id its "player_id" names: the dispatch of a
\* message of thread t changes the game state as the handler called with t
\* does, and not at all when t does not hold the turn.
C34_ActorIsConnection ==
    [][\A t \in Conns :
          (pc[t] = "msg_cs" /\ pc'[t] # "msg_cs")
            => /\ msg[t] = "roll_dice"
                    => \E d1 \in Faces, d2 \in Faces :
                          game_state' = handle_dice_roll(game_state, t, d1, d2)
               /\ msg[t] = "end_turn"
                    => game_state' = handle_end_turn(game_state, t)
               /\ msg[t] \notin {"roll_dice", "end_turn"}
                    => game_state' = game_state
               /\ t # current => game_state' = game_state]_vars

\* C34 witness: a session that does not hold the turn has had a roll_dice
\* dispatched whose "player_id" names the player who does.
C34_Witness ==
    \E t \in Conns :
        /\ caller[t] = "msg" /\ msg[t] = "roll_dice"
        /\ last.op = "roll_dice" /\ last.who = t /\ last.cur # t
        /\ msg_player_id[t] = last.cur
        /\ game_state.dice_roll = NoDice

\* ---- the dice at the start of a turn

\* C35: whenever the turn passes to another player, by end_turn or by the
\* removal of the current player, dice_roll is (0,0) when the new turn
\* starts; and dice_roll is (0,0) whenever the game is waiting for players.
C35_NewTurnStartsWithClearedDice ==
    /\ [](game_state.game_phase = "waiting_for_players"
            => game_state.dice_roll = NoDice)
    /\ [][(game_state'.current_player_id # current
             /\ game_state'.current_player_id # NoPlayer)
            => game_state'.dice_roll = NoDice]_vars

\* ---- what the clients are sent

\* no thread is at work: each waits for its client or has ended
Quiet == \A t \in Conns : pc[t] \in {"idle", "recv", "done", "crashed"}

\* the GAME_STATE messages sent to session c so far, by any thread
Delivered(c) ==
    {m \in UNION {Range(sent[t]) : t \in Conns} :
        m.to = c /\ m.type = GameStateMessage}

Processing(t) == pc[t] = "msg_cs" \/ (pc[t] \in BcPcs /\ caller[t] = "msg")

\* C37: an exception raised while a message of thread t is processed under
\* the lock takes t out of the with block with the lock released and touches
\* no other thread or session; the lock is held only by a thread inside a
\* with block, which can always take its next step, and a thread that comes
\* to a with self.lock does not hold the lock already.
C37_ExceptionReleasesLock ==
    /\ [](\A t \in Conns :
            /\ lock = t => InCritical(t) /\ ENABLED Run(t)
            /\ pc[t] \in {"join", "msg", "leave"} => lock # t)
    /\ [][\A t \in Conns :
            (Processing(t) /\ pc'[t] \in {"leave", "done", "crashed"})
              => /\ lock' = NoThread
                 /\ \A u \in Conns \ {t} :
                       /\ pc'[u] = pc[u]
                       /\ InClients(u)' = InClients(u)
                       /\ HasKey(game_state'.players, u) = HasKey(players, u)]_vars

\* C37 witness: the buy_property of one session raised under the lock, and
\* while its thread has not yet removed the session another thread holds
\* the lock.
C37_Witness ==
    \E t \in Conns, u \in Conns :
        /\ t # u
        /\ msg[t] = "buy_property" /\ pc[t] = "leave" /\ InClients(t)
        /\ lock = u /\ pc[u] = "msg_cs"

\* ---- a second CONNECT

\* C38: a CONNECT message that comes after the connection's first adds no
\* player and changes nothing: the session it came from stays registered
\* and its player in the game, and the dispatch of the message leaves the
\* game state and the registry as they were.
C38_SecondConnectChangesNothing ==
    [][\A t \in Conns :
          msg[t] = "CONNECT"
            => /\ InClients(t)' = InClients(t)
               /\ HasKey(game_state'.players, t) = HasKey(players, t)
               /\ (pc[t] = "msg_cs" /\ pc'[t] # "msg_cs")
                     => game_state' = game_state /\ clients' = clients]_vars

\* ---- the clients

\* the names of the players in the game state
Names(ps) == {NameOf(ps[i].id) : i \in 1..Len(ps)}

\* C39: a name a connected client has sent with register_player comes to be
\* the name of a player in the server's game state.
C39_RegisterPlayerAddsPlayer ==
    \A c \in Conns : \A n \in PlayerNames :
        (n \in client[c].registering) ~> (n \in Names(players))

\* C40: the player_id a client has adopted is the id of the player the
\* server made for that client's connection.
C40_AdoptedIdIsOwn ==
    \A c \in Conns :
        client[c].player_id # NoPlayer => client[c].player_id = c

=============================================================================
